---- MODULE Spec2Model ----
(***************************************************************************)
(* The file-metadata syscalls of api/src/imp/fs/stat.rs: sys_stat,         *)
(* sys_fstat, sys_lstat, sys_fstatat, sys_statx, sys_statfs and the helper *)
(* stat_at_path.                                                           *)
(*                                                                         *)
(* Every function of the file is an operator that yields the sequence of   *)
(* collaborator calls the function makes, in evaluation order, each with   *)
(* the result the collaborator gave, and the value the function returns.   *)
(* A syscall is entered by one action; its collaborator calls are then     *)
(* performed one per step, so that the handles held and the contents of    *)
(* the caller's buffer can be observed between any two of them.            *)
(*                                                                         *)
(* The collaborators (the user-memory accessors, the descriptor table, the *)
(* path joiner, the axfs opener and the metadata producer) are not part of *)
(* the file.  What each of them answers during a call is drawn at the      *)
(* entry of the call (env, and the pointers' validity in call).            *)
(***************************************************************************)
EXTENDS Integers, Sequences, FiniteSets, TLC

VARIABLES
    env,      \* what the collaborators answer during the current call
    call,     \* the syscall being executed and its arguments
    status,   \* "idle" | "running" | "returned"
    plan,     \* what the current call does: its collaborator calls and its result
    trace,    \* the collaborator calls made so far by the current call
    handles,  \* the axfs handles opened by this layer and not yet dropped
    buf,      \* the contents of the caller's output buffer
    ret,      \* what the last syscall returned: "0" or a LinuxError
    rec       \* the LinuxResult<Kstat> the last syscall obtained

vars == <<env, call, status, plan, trace, handles, buf, ret, rec>>

-----------------------------------------------------------------------------
(* Bounds and constants *)

\* the descriptor table has the slots 0 .. NumFds-1
NumFds == 1

AT_EMPTY_PATH == 4096

\* the reserved "current working directory" descriptor value
AT_FDCWD == 0 - 100

F_BSIZE == 4096
F_BLOCKS == 1024
F_BFREE == 512
F_BAVAIL == 256
F_FILES == 1024
F_FFREE == 512
F_NAMELEN == 255

\* descriptor values a caller passes: the cwd sentinel, every slot, and one
\* value past the table
Fds == {AT_FDCWD} \cup (0 .. NumFds)

\* flag words: none, another bit alone, AT_EMPTY_PATH next to another bit
Flags == {0, 256, AT_EMPTY_PATH + 256}

Masks == {0, 2047}

\* path strings, as sequences of characters
PathStrings == { <<>>, <<"/", "a">>, <<"a">> }

\* a user pointer to a path: null, unmapped, or a readable string
UserPaths ==
    { [ptr |-> "null", s |-> <<>>], [ptr |-> "bad", s |-> <<>>] }
    \cup { [ptr |-> "str", s |-> s] : s \in PathStrings }

\* a user pointer to an output buffer: writable or not
UserBufs == {"ok", "bad"}

AxErrors == {"IsADirectory", "NotFound", "PermissionDenied", "NotADirectory"}

FdEntries == {"none", "file", "dir"}

Envs ==
    [ fdtab : [0 .. NumFds - 1 -> FdEntries],
      fopen : {"Ok"} \cup AxErrors,
      dopen : {"Ok"} \cup AxErrors,
      meta  : {"Ok", "EIO"} ]

-----------------------------------------------------------------------------
(* Values *)

NoKstat == [kind |-> "none", obj |-> <<>>]

Kstat(kind, obj) == [kind |-> kind, obj |-> obj]

\* LinuxResult<Kstat>
Ok(k) == [ok |-> TRUE, err |-> "none", k |-> k]
Err(e) == [ok |-> FALSE, err |-> e, k |-> NoKstat]

NoResult == [ok |-> FALSE, err |-> "none", k |-> NoKstat]

\* one collaborator call: what was called, on what, and what it answered
Event(op, arg, res) == [op |-> op, arg |-> arg, ok |-> res.ok, err |-> res.err, k |-> res.k]

\* the contents of the caller's buffer before the call
Old == [layout |-> "old"]

\* impl From<AxError> for LinuxError
From_AxError(e) ==
    CASE e = "IsADirectory" -> "EISDIR"
      [] e = "NotFound" -> "ENOENT"
      [] e = "PermissionDenied" -> "EACCES"
      [] e = "NotADirectory" -> "ENOTDIR"

\* impl From<Kstat> for stat
stat_from(k) == [layout |-> "stat", kind |-> k.kind, obj |-> k.obj]

\* impl From<Kstat> for statx: the mask and attribute fields stay zero
statx_from(k) == [layout |-> "statx", kind |-> k.kind, obj |-> k.obj, stx_mask |-> 0]

\* core::mem::zeroed::<stat>()
stat_zeroed == [layout |-> "stat", kind |-> "zero", obj |-> <<>>]

\* core::mem::zeroed::<statfs>()
statfs_zeroed ==
    [layout |-> "statfs", f_type |-> 0, f_bsize |-> 0, f_blocks |-> 0, f_bfree |-> 0,
     f_bavail |-> 0, f_files |-> 0, f_ffree |-> 0, f_fsid |-> 0, f_namelen |-> 0,
     f_frsize |-> 0, f_flags |-> 0, f_spare |-> 0]

\* flags & bit, for a bit that is a power of two
BitAnd(flags, bit) == ((flags \div bit) % 2) * bit

-----------------------------------------------------------------------------
(* Collaborators *)

\* UserConstPtr::get_as_str: the string, or a fault on unmapped memory
get_as_str(path) ==
    IF path.ptr = "str" THEN [ok |-> TRUE, err |-> "none", some |-> TRUE, s |-> path.s]
    ELSE [ok |-> FALSE, err |-> "EFAULT", some |-> FALSE, s |-> <<>>]

\* nullable!(path.get_as_str()): a null pointer is Ok(None)
nullable_get_as_str(path) ==
    IF path.ptr = "null" THEN [ok |-> TRUE, err |-> "none", some |-> FALSE, s |-> <<>>]
    ELSE get_as_str(path)

\* UserPtr::get_as_mut
get_as_mut(statbuf) == IF statbuf = "ok" THEN Ok(NoKstat) ELSE Err("EFAULT")

\* fd::get_file_like: the entry of the descriptor table, or EBADF
get_file_like(fd) ==
    IF fd \in DOMAIN env.fdtab /\ env.fdtab[fd] # "none"
    THEN [ok |-> TRUE, err |-> "none", kind |-> env.fdtab[fd]]
    ELSE [ok |-> FALSE, err |-> "EBADF", kind |-> "none"]

FdObj(fd) == <<"fd", ToString(fd)>>

\* FileLike::stat on a descriptor table entry
FileLike_stat(fd) ==
    IF env.meta = "Ok" THEN Ok(Kstat(env.fdtab[fd], FdObj(fd))) ELSE Err(env.meta)

\* fd::File::stat on a freshly opened file
File_stat(path) == IF env.meta = "Ok" THEN Ok(Kstat("file", path)) ELSE Err(env.meta)

\* fd::Directory::stat on a freshly opened directory
Directory_stat(path) == IF env.meta = "Ok" THEN Ok(Kstat("dir", path)) ELSE Err(env.meta)

Cwd == <<"/">>

DirPath(fd) == <<"/", "d", ToString(fd)>>

\* path::handle_file_path: an absolute path as it is, a relative one joined
\* to the working directory or to the directory of dirfd
handle_file_path(dirfd, s) ==
    IF Len(s) > 0 /\ s[1] = "/" THEN [ok |-> TRUE, err |-> "none", s |-> s]
    ELSE IF dirfd = AT_FDCWD THEN [ok |-> TRUE, err |-> "none", s |-> Cwd \o s]
    ELSE IF ~ get_file_like(dirfd).ok THEN [ok |-> FALSE, err |-> "EBADF", s |-> <<>>]
    ELSE IF get_file_like(dirfd).kind # "dir" THEN [ok |-> FALSE, err |-> "ENOTDIR", s |-> <<>>]
    ELSE [ok |-> TRUE, err |-> "none", s |-> DirPath(dirfd) \o <<"/">> \o s]

\* axfs::fops::File::open(path, opts)
File_open(path) == IF env.fopen = "Ok" THEN Ok(NoKstat) ELSE Err(env.fopen)

\* axfs::fops::Directory::open_dir(path, opts)
Directory_open_dir(path) == IF env.dopen = "Ok" THEN Ok(NoKstat) ELSE Err(env.dopen)

-----------------------------------------------------------------------------
(* The functions of stat.rs.  Each yields ev, the collaborator calls it    *)
(* makes in order, and res, the LinuxResult<Kstat> it evaluates to.        *)

\* stat_at_path where every failed file-open falls back to open_dir
stat_at_path_FallbackOnAnyError(path) ==
    LET f == File_open(path)
        d == Directory_open_dir(path)
    IN  IF f.ok
        THEN [ev  |-> << Event("File::open", path, f),
                         Event("File::stat", path, File_stat(path)),
                         Event("drop(File)", path, Ok(NoKstat)) >>,
              res |-> File_stat(path)]
        ELSE IF d.ok
        THEN [ev  |-> << Event("File::open", path, f),
                         Event("Directory::open_dir", path, d),
                         Event("Directory::stat", path, Directory_stat(path)),
                         Event("drop(Directory)", path, Ok(NoKstat)) >>,
              res |-> Directory_stat(path)]
        ELSE [ev  |-> << Event("File::open", path, f),
                         Event("Directory::open_dir", path, d) >>,
              res |-> Err(From_AxError(d.err))]

\* stat_at_path without the IsADirectory arm
stat_at_path_NoFallback(path) ==
    LET f == File_open(path)
    IN  IF f.ok
        THEN [ev  |-> << Event("File::open", path, f),
                         Event("File::stat", path, File_stat(path)),
                         Event("drop(File)", path, Ok(NoKstat)) >>,
              res |-> File_stat(path)]
        ELSE [ev  |-> << Event("File::open", path, f) >>,
              res |-> Err(From_AxError(f.err))]

\* stat_at_path that keeps the handle when the metadata producer fails
stat_at_path_LeakOnStatError(path) ==
    LET f == File_open(path)
        d == Directory_open_dir(path)
        Drop(op, r) == IF r.ok THEN << Event(op, path, Ok(NoKstat)) >> ELSE << >>
    IN  IF f.ok
        THEN [ev  |-> << Event("File::open", path, f),
                         Event("File::stat", path, File_stat(path)) >>
                      \o Drop("drop(File)", File_stat(path)),
              res |-> File_stat(path)]
        ELSE IF f.err = "IsADirectory"
        THEN IF d.ok
             THEN [ev  |-> << Event("File::open", path, f),
                              Event("Directory::open_dir", path, d),
                              Event("Directory::stat", path, Directory_stat(path)) >>
                           \o Drop("drop(Directory)", Directory_stat(path)),
                   res |-> Directory_stat(path)]
             ELSE [ev  |-> << Event("File::open", path, f),
                              Event("Directory::open_dir", path, d) >>,
                   res |-> Err(From_AxError(d.err))]
        ELSE [ev  |-> << Event("File::open", path, f) >>,
              res |-> Err(From_AxError(f.err))]

\* stat_at_path that retries with File::open where it should open a directory
stat_at_path_RetryAsFile(path) ==
    LET f == File_open(path)
    IN  IF f.ok
        THEN [ev  |-> << Event("File::open", path, f),
                         Event("File::stat", path, File_stat(path)),
                         Event("drop(File)", path, Ok(NoKstat)) >>,
              res |-> File_stat(path)]
        ELSE IF f.err = "IsADirectory"
        THEN [ev  |-> << Event("File::open", path, f),
                         Event("File::open", path, f) >>,
              res |-> Err(From_AxError(f.err))]
        ELSE [ev  |-> << Event("File::open", path, f) >>,
              res |-> Err(From_AxError(f.err))]

\* fn stat_at_path(path: &str) -> LinuxResult<Kstat>
stat_at_path(path) ==
    LET f == File_open(path)
        d == Directory_open_dir(path)
    IN  IF f.ok
        THEN \* Ok(file) => File::new(file, path.into()).stat(); the File is a
             \* temporary, dropped when the arm has been evaluated
             [ev  |-> << Event("File::open", path, f),
                         Event("File::stat", path, File_stat(path)),
                         Event("drop(File)", path, Ok(NoKstat)) >>,
              res |-> File_stat(path)]
        ELSE IF f.err = "IsADirectory"
        THEN IF d.ok
             THEN [ev  |-> << Event("File::open", path, f),
                              Event("Directory::open_dir", path, d),
                              Event("Directory::stat", path, Directory_stat(path)),
                              Event("drop(Directory)", path, Ok(NoKstat)) >>,
                   res |-> Directory_stat(path)]
             ELSE \* open_dir(path, &opts)?
                  [ev  |-> << Event("File::open", path, f),
                              Event("Directory::open_dir", path, d) >>,
                   res |-> Err(From_AxError(d.err))]
        ELSE \* Err(e) => Err(e.into())
             [ev  |-> << Event("File::open", path, f) >>,
              res |-> Err(From_AxError(f.err))]

\* get_file_like(fd)?.stat()?
fd_stat(fd) ==
    LET f == get_file_like(fd)
    IN  IF ~ f.ok
        THEN [ev  |-> << Event("get_file_like", FdObj(fd), Err(f.err)) >>,
              res |-> Err(f.err)]
        ELSE [ev  |-> << Event("get_file_like", FdObj(fd), Ok(NoKstat)),
                         Event("FileLike::stat", FdObj(fd), FileLike_stat(fd)) >>,
              res |-> FileLike_stat(fd)]

\* handle_file_path(dirfd, path)? followed by stat_at_path(path.as_str())?
path_stat(dirfd, s) ==
    LET p == handle_file_path(dirfd, s)
    IN  IF ~ p.ok
        THEN [ev  |-> << Event("handle_file_path", FdObj(dirfd) \o s, Err(p.err)) >>,
              res |-> Err(p.err)]
        ELSE [ev  |-> << Event("handle_file_path", FdObj(dirfd) \o s, Ok(NoKstat)) >>
                      \o stat_at_path(p.s).ev,
              res |-> stat_at_path(p.s).res]

\* path.is_none_or(|s| s.is_empty())
is_none_or_empty(p) == (~ p.some) \/ Len(p.s) = 0

\* the argument of a user-memory access, as it is recorded in the trace
PathArg(path) == <<path.ptr>> \o path.s

\* the assignment that writes the buffer before the right-hand side is known
\* to have succeeded
assign_WriteFirst(pre, rhs, statbuf, value) ==
    IF ~ get_as_mut(statbuf).ok
    THEN [ev  |-> pre \o << Event("get_as_mut", <<statbuf>>, Err("EFAULT")) >>,
          ret |-> "EFAULT", out |-> value, rec |-> rhs.res]
    ELSE [ev  |-> pre \o << Event("get_as_mut", <<statbuf>>, Ok(NoKstat)),
                            Event("write", <<statbuf>>, Ok(NoKstat)) >> \o rhs.ev,
          ret |-> IF rhs.res.ok THEN "0" ELSE rhs.res.err,
          out |-> value, rec |-> rhs.res]

\* *statbuf.get_as_mut()? = <rhs>?.into(); Ok(0)
\* The assigned value is evaluated before the place it is assigned to: an error
\* of the right-hand side returns before the buffer pointer is looked at.
assign(pre, rhs, statbuf, value) ==
    IF ~ rhs.res.ok
    THEN [ev |-> pre \o rhs.ev, ret |-> rhs.res.err, out |-> value, rec |-> rhs.res]
    ELSE IF ~ get_as_mut(statbuf).ok
    THEN [ev  |-> pre \o rhs.ev \o << Event("get_as_mut", <<statbuf>>, Err("EFAULT")) >>,
          ret |-> "EFAULT", out |-> value, rec |-> rhs.res]
    ELSE [ev  |-> pre \o rhs.ev \o << Event("get_as_mut", <<statbuf>>, Ok(NoKstat)),
                                      Event("write", <<statbuf>>, Ok(NoKstat)) >>,
          ret |-> "0", out |-> value, rec |-> rhs.res]

\* let path = path.get_as_str()?;  as the first statement of a syscall
path_fault(path) ==
    [ev  |-> << Event("get_as_str", PathArg(path), Err("EFAULT")) >>,
     ret |-> "EFAULT", out |-> Old, rec |-> NoResult]

path_read(path) == << Event("get_as_str", PathArg(path), Ok(NoKstat)) >>

\* pub fn sys_stat(path, statbuf)
sys_stat(path, statbuf) ==
    LET p == get_as_str(path)
        rhs == stat_at_path(p.s)
    IN  IF ~ p.ok THEN path_fault(path)
        ELSE assign(path_read(path), rhs, statbuf, stat_from(rhs.res.k))

\* pub fn sys_fstat(fd, statbuf)
sys_fstat(fd, statbuf) ==
    LET rhs == fd_stat(fd)
    IN  assign(<< >>, rhs, statbuf, stat_from(rhs.res.k))

\* sys_lstat implemented as sys_stat
sys_lstat_AsStat(path, statbuf) ==
    LET p == get_as_str(path)
        rhs == stat_at_path(p.s)
    IN  IF ~ p.ok THEN path_fault(path)
        ELSE assign(path_read(path), rhs, statbuf, stat_from(rhs.res.k))

\* pub fn sys_lstat(path, statbuf)
sys_lstat(path, statbuf) ==
    LET p == get_as_str(path)
        rhs == [ev |-> << >>, res |-> Ok(NoKstat)]
    IN  IF ~ p.ok THEN path_fault(path)
        ELSE assign(path_read(path), rhs, statbuf, stat_zeroed)

\* sys_fstatat that looks the descriptor up before it tests the flag
sys_fstatat_rhs_LookupFirst(dirfd, p, flags) ==
    IF is_none_or_empty(p)
    THEN IF ~ fd_stat(dirfd).res.ok \/ BitAnd(flags, AT_EMPTY_PATH) # 0
         THEN fd_stat(dirfd)
         ELSE [ev |-> fd_stat(dirfd).ev, res |-> Err("ENOENT")]
    ELSE path_stat(dirfd, p.s)

\* sys_fstatat that refuses an empty path whatever the flags
sys_fstatat_rhs_FlagIgnored(dirfd, p, flags) ==
    IF is_none_or_empty(p)
    THEN [ev |-> << >>, res |-> Err("ENOENT")]
    ELSE path_stat(dirfd, p.s)

\* the right-hand side of the assignment in sys_fstatat
sys_fstatat_rhs(dirfd, p, flags) ==
    IF is_none_or_empty(p)
    THEN IF BitAnd(flags, AT_EMPTY_PATH) = 0
         THEN [ev |-> << >>, res |-> Err("ENOENT")]
         ELSE fd_stat(dirfd)
    ELSE path_stat(dirfd, p.s)

\* pub fn sys_fstatat(dirfd, path, statbuf, flags)
sys_fstatat(dirfd, path, statbuf, flags) ==
    LET p == nullable_get_as_str(path)
        rhs == sys_fstatat_rhs(dirfd, p, flags)
    IN  IF ~ p.ok THEN path_fault(path)
        ELSE assign(path_read(path), rhs, statbuf, stat_from(rhs.res.k))

\* sys_statx that compares the flag word with AT_EMPTY_PATH
sys_statx_rhs_FlagEquality(dirfd, p, flags, mask) ==
    IF is_none_or_empty(p)
    THEN IF flags # AT_EMPTY_PATH
         THEN [ev |-> << >>, res |-> Err("ENOENT")]
         ELSE fd_stat(dirfd)
    ELSE path_stat(dirfd, p.s)

\* the right-hand side of the assignment in sys_statx
sys_statx_rhs(dirfd, p, flags, mask) ==
    IF is_none_or_empty(p)
    THEN IF BitAnd(flags, AT_EMPTY_PATH) = 0
         THEN [ev |-> << >>, res |-> Err("ENOENT")]
         ELSE fd_stat(dirfd)
    ELSE path_stat(dirfd, p.s)

\* pub fn sys_statx(dirfd, path, flags, _mask, statxbuf)
sys_statx(dirfd, path, flags, mask, statxbuf) ==
    LET p == nullable_get_as_str(path)
        rhs == sys_statx_rhs(dirfd, p, flags, mask)
    IN  IF ~ p.ok THEN path_fault(path)
        ELSE assign(path_read(path), rhs, statxbuf, statx_from(rhs.res.k))

\* the statfs record with the free and the available blocks exchanged
statfs_value_Swapped ==
    [statfs_zeroed EXCEPT !.f_bsize = F_BSIZE, !.f_blocks = F_BLOCKS, !.f_bfree = F_BAVAIL,
                          !.f_bavail = F_BFREE, !.f_files = F_FILES, !.f_ffree = F_FFREE,
                          !.f_namelen = F_NAMELEN]

\* the statfs record sys_statfs builds
statfs_value ==
    [statfs_zeroed EXCEPT !.f_bsize = F_BSIZE, !.f_blocks = F_BLOCKS, !.f_bfree = F_BFREE,
                          !.f_bavail = F_BAVAIL, !.f_files = F_FILES, !.f_ffree = F_FFREE,
                          !.f_namelen = F_NAMELEN]

\* pub fn sys_statfs(path, statfsbuf)
sys_statfs(path, statfsbuf) ==
    LET p == get_as_str(path)
        rhs == [ev |-> << >>, res |-> Ok(NoKstat)]
    IN  IF ~ p.ok THEN path_fault(path)
        ELSE assign(path_read(path), rhs, statfsbuf, statfs_value)

-----------------------------------------------------------------------------
(* The state machine *)

Call(name, fd, path, statbuf, flags, mask) ==
    [name |-> name, fd |-> fd, path |-> path, statbuf |-> statbuf,
     flags |-> flags, mask |-> mask]

NoCall == Call("none", 0, [ptr |-> "null", s |-> << >>], "ok", 0, 0)

NoPlan == [ev |-> << >>, ret |-> "none", out |-> Old, rec |-> NoResult]

\* what the syscall of the current call does, given the collaborators' answers
Plan ==
    CASE call.name = "stat"    -> sys_stat(call.path, call.statbuf)
      [] call.name = "fstat"   -> sys_fstat(call.fd, call.statbuf)
      [] call.name = "lstat"   -> sys_lstat(call.path, call.statbuf)
      [] call.name = "fstatat" -> sys_fstatat(call.fd, call.path, call.statbuf, call.flags)
      [] call.name = "statx"   ->
             sys_statx(call.fd, call.path, call.flags, call.mask, call.statbuf)
      [] call.name = "statfs"  -> sys_statfs(call.path, call.statbuf)
      [] OTHER -> NoPlan

\* between calls no collaborator is being asked anything
NoEnv == [fdtab |-> [fd \in 0 .. NumFds - 1 |-> "none"],
          fopen |-> "NotFound", dopen |-> "NotFound", meta |-> "Ok"]

Init ==
    /\ env = NoEnv
    /\ call = NoCall
    /\ status = "idle"
    /\ plan = NoPlan
    /\ trace = << >>
    /\ handles = << >>
    /\ buf = Old
    /\ ret = "none"
    /\ rec = NoResult

\* a syscall is entered: the collaborators' answers for this call are fixed,
\* the caller's buffer holds whatever it held before
Enter(c) ==
    /\ status = "idle"
    /\ call' = c
    /\ env' \in Envs
    /\ plan' = Plan'
    /\ status' = "running"
    /\ trace' = << >>
    /\ buf' = Old
    /\ ret' = "none"
    /\ rec' = NoResult
    /\ UNCHANGED handles

Enter_sys_stat ==
    \E path \in UserPaths, statbuf \in UserBufs :
        Enter(Call("stat", 0, path, statbuf, 0, 0))

Enter_sys_fstat ==
    \E fd \in Fds, statbuf \in UserBufs :
        Enter(Call("fstat", fd, [ptr |-> "null", s |-> << >>], statbuf, 0, 0))

Enter_sys_lstat ==
    \E path \in UserPaths, statbuf \in UserBufs :
        Enter(Call("lstat", 0, path, statbuf, 0, 0))

Enter_sys_fstatat ==
    \E dirfd \in Fds, path \in UserPaths, statbuf \in UserBufs, flags \in Flags :
        Enter(Call("fstatat", dirfd, path, statbuf, flags, 0))

Enter_sys_statx ==
    \E dirfd \in Fds, path \in UserPaths, statbuf \in UserBufs, flags \in Flags,
       mask \in Masks :
        Enter(Call("statx", dirfd, path, statbuf, flags, mask))

Enter_sys_statfs ==
    \E path \in UserPaths, statbuf \in UserBufs :
        Enter(Call("statfs", 0, path, statbuf, 0, 0))

HasNext == status = "running" /\ Len(trace) < Len(plan.ev)

NextEv == plan.ev[Len(trace) + 1]

Advance ==
    /\ trace' = Append(trace, NextEv)
    /\ UNCHANGED <<env, call, status, plan, ret, rec>>

\* s without its first element equal to h
RECURSIVE Remove(_, _)
Remove(s, h) ==
    IF s = << >> THEN << >>
    ELSE IF Head(s) = h THEN Tail(s)
    ELSE << Head(s) >> \o Remove(Tail(s), h)

\* the caller's path string is read
UserRead ==
    /\ HasNext /\ NextEv.op = "get_as_str"
    /\ Advance /\ UNCHANGED <<handles, buf>>

\* the descriptor table is asked for a file-like object
DescriptorLookup ==
    /\ HasNext /\ NextEv.op = "get_file_like"
    /\ Advance /\ UNCHANGED <<handles, buf>>

\* descriptor and path are joined into a resolved path
PathJoin ==
    /\ HasNext /\ NextEv.op = "handle_file_path"
    /\ Advance /\ UNCHANGED <<handles, buf>>

\* the path is opened as a file: on success this layer holds the handle
OpenFile ==
    /\ HasNext /\ NextEv.op = "File::open"
    /\ handles' = IF NextEv.ok THEN Append(handles, <<"File", NextEv.arg>>) ELSE handles
    /\ Advance /\ UNCHANGED buf

\* the path is opened as a directory
OpenDir ==
    /\ HasNext /\ NextEv.op = "Directory::open_dir"
    /\ handles' = IF NextEv.ok THEN Append(handles, <<"Directory", NextEv.arg>>) ELSE handles
    /\ Advance /\ UNCHANGED buf

\* the metadata producer is asked for the record of a handle
Metadata ==
    /\ HasNext /\ NextEv.op \in {"FileLike::stat", "File::stat", "Directory::stat"}
    /\ Advance /\ UNCHANGED <<handles, buf>>

\* a handle opened by this call goes out of scope
DropHandle ==
    /\ HasNext /\ NextEv.op \in {"drop(File)", "drop(Directory)"}
    /\ handles' = Remove(handles,
                         << IF NextEv.op = "drop(File)" THEN "File" ELSE "Directory",
                            NextEv.arg >>)
    /\ Advance /\ UNCHANGED buf

\* the caller's buffer pointer is checked
BufAcquire ==
    /\ HasNext /\ NextEv.op = "get_as_mut"
    /\ Advance /\ UNCHANGED <<handles, buf>>

\* the whole record is stored into the caller's buffer
BufWrite ==
    /\ HasNext /\ NextEv.op = "write"
    /\ buf' = plan.out
    /\ Advance /\ UNCHANGED handles

\* the syscall returns to the caller
Return ==
    /\ status = "running" /\ Len(trace) = Len(plan.ev)
    /\ status' = "returned"
    /\ ret' = plan.ret
    /\ rec' = plan.rec
    /\ UNCHANGED <<env, call, plan, trace, handles, buf>>

\* the caller has seen the result and runs on, up to its next syscall
Resume ==
    /\ status = "returned"
    /\ status' = "idle"
    /\ call' = NoCall
    /\ env' = NoEnv
    /\ plan' = NoPlan
    /\ trace' = << >>
    /\ buf' = Old
    /\ ret' = "none"
    /\ rec' = NoResult
    /\ UNCHANGED handles

Next ==
    \/ Enter_sys_stat
    \/ Enter_sys_fstat
    \/ Enter_sys_lstat
    \/ Enter_sys_fstatat
    \/ Enter_sys_statx
    \/ Enter_sys_statfs
    \/ UserRead
    \/ DescriptorLookup
    \/ PathJoin
    \/ OpenFile
    \/ OpenDir
    \/ Metadata
    \/ DropHandle
    \/ BufAcquire
    \/ BufWrite
    \/ Return
    \/ Resume

Spec == Init /\ [][Next]_vars

-----------------------------------------------------------------------------
(* Properties *)

Returned == status = "returned"

\* the calls of the collaborators named in ops, in the order they were made
Calls(ops) == SelectSeq(trace, LAMBDA e : e.op \in ops)

FileOpens == Calls({"File::open"})
DirOpens == Calls({"Directory::open_dir"})
Opens == Calls({"File::open", "Directory::open_dir"})
Stats == Calls({"FileLike::stat", "File::stat", "Directory::stat"})

\* descriptor lookups, path joins and open attempts
Resolutions ==
    Calls({"get_file_like", "handle_file_path", "File::open", "Directory::open_dir"})

ByPath == call.name \in {"stat", "fstatat", "statx"}

\* the path argument is absent (null) or the empty string
EmptyPathArg ==
    call.path.ptr = "null" \/ (call.path.ptr = "str" /\ call.path.s = << >>)

EmptyPathFlag == BitAnd(call.flags, AT_EMPTY_PATH) # 0

\* C1: when the file-open attempt of stat_at_path fails with an error other
\* than IsADirectory, no directory-open attempt is made, nothing else is
\* called after it, and the syscall returns that error (as a LinuxError).
C1_OtherOpenErrorPropagates ==
    (ByPath /\ Len(FileOpens) > 0 /\ ~ FileOpens[1].ok /\ FileOpens[1].err # "IsADirectory")
    => /\ Len(DirOpens) = 0
       /\ Len(FileOpens) = 1
       /\ trace[Len(trace)] = FileOpens[1]
       /\ Returned => ret = From_AxError(FileOpens[1].err)

C1_Witness ==
    /\ Returned /\ call.name = "fstatat"
    /\ Len(FileOpens) = 1 /\ FileOpens[1].err = "NotFound"
    /\ env.dopen = "Ok"
    /\ ret = "ENOENT"

\* C2: for a path that names a directory (the file-open answers IsADirectory
\* and the directory-open succeeds), a finished call has made exactly one
\* file-open attempt, which failed with IsADirectory, then exactly one
\* directory-open attempt on the same path, which succeeded, and the record
\* obtained is the one the metadata producer gives for the directory handle.
C2_DirectoryProbe ==
    (Returned /\ ByPath /\ Len(FileOpens) > 0
        /\ env.fopen = "IsADirectory" /\ env.dopen = "Ok")
    => /\ Len(Opens) = 2
       /\ Opens[1].op = "File::open" /\ ~ Opens[1].ok /\ Opens[1].err = "IsADirectory"
       /\ Opens[2].op = "Directory::open_dir" /\ Opens[2].ok
       /\ Opens[2].arg = Opens[1].arg
       /\ rec = Directory_stat(Opens[2].arg)
       /\ Len(Stats) = 1 /\ Stats[1].op = "Directory::stat"
       /\ Stats[1].arg = Opens[2].arg
       /\ rec.ok => (rec.k = Stats[1].k /\ rec.k.kind = "dir")

C2_Witness ==
    /\ Returned /\ call.name = "stat"
    /\ env.fopen = "IsADirectory" /\ env.dopen = "Ok"
    /\ Len(FileOpens) = 1 /\ Len(DirOpens) = 1
    /\ rec.ok /\ rec.k.kind = "dir"
    /\ ret = "0" /\ buf = stat_from(rec.k)

\* C3: sys_fstatat and sys_statx with an absent or empty path and
\* AT_EMPTY_PATH clear fail with ENOENT for every dirfd, valid or not, and
\* make no descriptor lookup, no path join and no open attempt.
C3_EmptyPathWithoutFlag ==
    (call.name \in {"fstatat", "statx"} /\ EmptyPathArg /\ ~ EmptyPathFlag)
    => /\ Len(Resolutions) = 0
       /\ Returned => (ret = "ENOENT" /\ buf = Old)

C3_Witness ==
    /\ Returned /\ call.name = "statx"
    /\ call.path = [ptr |-> "str", s |-> << >>]
    /\ call.flags = 256 /\ call.fd = 0 /\ env.fdtab[0] = "file"
    /\ ret = "ENOENT"

\* C4: sys_fstatat(fd, absent or empty path, buf, flags with AT_EMPTY_PATH)
\* ends as sys_fstat(fd, buf) does: the same collaborator calls after the path
\* has been read, the same record or the same error, the same buffer contents;
\* with fd = AT_FDCWD, which is no file-like descriptor, it fails with EBADF.
C4_EmptyPathIsFstat ==
    (Returned /\ call.name = "fstatat" /\ EmptyPathArg /\ EmptyPathFlag)
    => LET f == sys_fstat(call.fd, call.statbuf)
       IN  /\ ret = f.ret
           /\ rec = f.rec
           /\ Tail(trace) = f.ev
           /\ buf = (IF f.ret = "0" THEN f.out ELSE Old)
           /\ call.fd = AT_FDCWD => ret = "EBADF"

C4_Witness ==
    /\ Returned /\ call.name = "fstatat"
    /\ call.path = [ptr |-> "null", s |-> << >>]
    /\ EmptyPathFlag /\ call.fd = 0 /\ env.fdtab[0] = "dir"
    /\ ret = "0" /\ buf = stat_from(Kstat("dir", FdObj(0)))

\* C5: in sys_stat, sys_fstat, sys_fstatat and sys_statx the output buffer
\* holds either what it held before the call or the whole record, it is
\* written only after the metadata producer has given the record and every
\* handle has been released, and after a call that returns an error it
\* holds what it held before.
C5_BufferWrittenLast ==
    call.name \in {"stat", "fstat", "fstatat", "statx"}
    => /\ (Returned /\ ret # "0") => buf = Old
       /\ (Returned /\ ret = "0") => (rec.ok /\ buf # Old)
       /\ buf # Old =>
            /\ Len(Stats) = 1 /\ Stats[1].ok
            /\ buf = (IF call.name = "statx" THEN statx_from(Stats[1].k)
                      ELSE stat_from(Stats[1].k))
            /\ trace[Len(trace)].op = "write"
            /\ Len(Calls({"write"})) = 1

C5_Witness ==
    /\ Returned /\ call.name = "stat"
    /\ call.statbuf = "ok"
    /\ Len(Stats) = 1 /\ ~ Stats[1].ok
    /\ ret = "EIO" /\ buf = Old

\* C6 as claimed: sys_statfs succeeds and writes its constants whatever the
\* path argument is.
C6_StatfsAlwaysSucceeds ==
    (Returned /\ call.name = "statfs")
    => /\ ret = "0"
       /\ buf = statfs_value
       /\ Len(Resolutions) = 0

\* C6: sys_statfs makes no descriptor lookup, path join or open attempt; when
\* the path string is readable and the buffer writable it returns 0 and
\* writes block size 4096, 1024 blocks, 512 free, 256 available, 1024 file
\* nodes, 512 free file nodes, name length 255 and zero elsewhere; when one of
\* the two user-memory accesses fails it returns that error and writes nothing.
C6_StatfsConstants ==
    call.name = "statfs"
    => /\ Len(Resolutions) = 0 /\ Len(Stats) = 0
       /\ Returned =>
            IF call.path.ptr = "str" /\ call.statbuf = "ok"
            THEN /\ ret = "0"
                 /\ buf = [layout |-> "statfs", f_type |-> 0, f_bsize |-> 4096,
                           f_blocks |-> 1024, f_bfree |-> 512, f_bavail |-> 256,
                           f_files |-> 1024, f_ffree |-> 512, f_fsid |-> 0,
                           f_namelen |-> 255, f_frsize |-> 0, f_flags |-> 0,
                           f_spare |-> 0]
            ELSE ret = "EFAULT" /\ buf = Old

C6_Witness ==
    /\ Returned /\ call.name = "statfs"
    /\ call.path = [ptr |-> "str", s |-> <<"/", "a">>]
    /\ env.fopen = "NotFound"
    /\ ret = "0" /\ buf.f_bsize = 4096 /\ buf.f_namelen = 255

\* the open attempts of stat_at_path: at most one file-open; a directory-open
\* only as the call next to a file-open that failed with IsADirectory, on the
\* same path; a finished call has made that retry; if the retry failed, it was
\* the last call made and its error is what the syscall returned
InterceptedOnce ==
    /\ Len(FileOpens) <= 1 /\ Len(DirOpens) <= 1
    /\ Len(DirOpens) = 1 =>
         /\ Len(Opens) = 2
         /\ Opens[1].op = "File::open" /\ Opens[1].err = "IsADirectory"
         /\ Opens[2].arg = Opens[1].arg
         /\ \E i \in 1 .. Len(trace) - 1 : trace[i] = Opens[1] /\ trace[i + 1] = Opens[2]
    /\ (Returned /\ Len(FileOpens) = 1 /\ FileOpens[1].err = "IsADirectory")
         => Len(DirOpens) = 1
    /\ (Returned /\ Len(DirOpens) = 1 /\ ~ DirOpens[1].ok)
         => /\ trace[Len(trace)] = DirOpens[1]
            /\ ret = From_AxError(DirOpens[1].err)

\* C7 as claimed: EISDIR never reaches the caller of sys_stat, sys_fstatat or
\* sys_statx; IsADirectory is intercepted once and turned into one
\* directory-open retry, whose error, if it fails, is returned as it is.
C7_NeverSurfaced ==
    ByPath => (InterceptedOnce /\ (Returned => ret # "EISDIR"))

\* C7: the IsADirectory of the file-open attempt never reaches the caller: it
\* is intercepted once and turned into one directory-open retry; what the
\* caller gets is the outcome of that retry: the retry's own error as it is
\* if it fails (IsADirectory too, should the directory opener answer it), with
\* no further open, else the metadata producer's error, else the buffer's
\* fault, else success.
C7_InterceptedOnce ==
    ByPath =>
      /\ InterceptedOnce
      /\ (Returned /\ Len(FileOpens) = 1 /\ FileOpens[1].err = "IsADirectory")
           => ret = (IF ~ DirOpens[1].ok THEN From_AxError(DirOpens[1].err)
                     ELSE IF ~ Stats[1].ok THEN Stats[1].err
                     ELSE IF call.statbuf # "ok" THEN "EFAULT"
                     ELSE "0")

C7_Witness ==
    /\ Returned /\ call.name = "stat"
    /\ Len(FileOpens) = 1 /\ FileOpens[1].err = "IsADirectory"
    /\ Len(DirOpens) = 1 /\ DirOpens[1].err = "PermissionDenied"
    /\ ret = "EACCES"

\* C8: this layer holds at most one handle at any moment, a handle it holds
\* was opened by the running call, and none is held once the syscall has
\* returned, however it returned, nor while the output buffer is accessed.
C8_HandlesReleased ==
    /\ Len(handles) <= 1
    /\ status \in {"idle", "returned"} => handles = << >>
    /\ Len(Calls({"get_as_mut", "write"})) > 0 => handles = << >>
    /\ \A i \in 1 .. Len(handles) :
         \E j \in 1 .. Len(Opens) :
            /\ Opens[j].ok
            /\ handles[i] = << IF Opens[j].op = "File::open" THEN "File" ELSE "Directory",
                               Opens[j].arg >>

C8_Witness ==
    /\ Returned /\ call.name = "statx"
    /\ Len(DirOpens) = 1 /\ DirOpens[1].ok
    /\ Len(Stats) = 1 /\ ~ Stats[1].ok
    /\ ret = "EIO" /\ handles = << >>

\* C9: a finished sys_statx has made the collaborator calls sys_fstatat makes
\* for the same dirfd, path, flags and buffer, in the same order and with the
\* same answers, has returned what sys_fstatat returns, has obtained the
\* same record and has filled its buffer from it; this holds for every mask.
C9_StatxIsFstatat ==
    (Returned /\ call.name = "statx")
    => LET f == sys_fstatat(call.fd, call.path, call.statbuf, call.flags)
       IN  /\ trace = f.ev
           /\ ret = f.ret
           /\ rec = f.rec
           /\ buf = (IF f.ret = "0" THEN statx_from(f.rec.k) ELSE Old)
           /\ \A m \in Masks :
                sys_statx(call.fd, call.path, call.flags, m, call.statbuf) = plan

C9_Witness ==
    /\ Returned /\ call.name = "statx"
    /\ call.mask = 2047 /\ call.flags = AT_EMPTY_PATH + 256
    /\ call.path = [ptr |-> "str", s |-> << >>]
    /\ call.fd = 0
    /\ ret = "0" /\ buf.layout = "statx" /\ buf.kind = "file"

\* C10 as claimed: sys_lstat returns 0 and zero-fills the buffer for every
\* readable path string, without open attempt, path join or descriptor lookup.
C10_LstatAlwaysZeroFills ==
    (Returned /\ call.name = "lstat" /\ call.path.ptr = "str")
    => /\ ret = "0"
       /\ buf = stat_zeroed
       /\ Len(Resolutions) = 0

\* C10: for every readable path string sys_lstat makes no open attempt, path
\* join or descriptor lookup and asks no metadata; if the buffer is writable
\* it returns 0 and zero-fills it, whether or not the path names an object;
\* if it is not, it returns the fault and writes nothing.
C10_LstatZeroFills ==
    (call.name = "lstat" /\ call.path.ptr = "str")
    => /\ Len(Resolutions) = 0 /\ Len(Stats) = 0
       /\ Returned =>
            IF call.statbuf = "ok"
            THEN ret = "0" /\ buf = [layout |-> "stat", kind |-> "zero", obj |-> << >>]
            ELSE ret = "EFAULT" /\ buf = Old

C10_Witness ==
    /\ Returned /\ call.name = "lstat"
    /\ call.path = [ptr |-> "str", s |-> <<"a">>]
    /\ env.fopen = "NotFound"
    /\ ret = "0" /\ buf = stat_zeroed

====
